---------------------------- MODULE Spec2Model ----------------------------
(***************************************************************************)
(* Model of player/mruby.c: the mruby scripting backend of mpv.            *)
(*                                                                         *)
(* load_mruby() allocates a script_ctx, opens an mruby interpreter, binds  *)
(* the ctx under the constant "mpctx", registers the module functions      *)
(* M.log, M.property_list and M.get_property, runs one script file, prints *)
(* the backtrace of an uncaught exception and tears everything down.       *)
(*                                                                         *)
(* The interpreter is modelled by what the bridge sees of it: a heap of    *)
(* GC-managed objects (strings, arrays, hashes), the GC arena (the stack   *)
(* of temporary roots that mrb_gc_arena_save/restore manipulate), the      *)
(* pending exception mrb->exc, and a collector that may run at any         *)
(* allocation and frees whatever the arena does not reach.                 *)
(***************************************************************************)
EXTENDS Integers, Sequences, FiniteSets, TLC

(***************************************************************************)
(* Bounds of the model.                                                    *)
(***************************************************************************)
MaxNodes == 3      \* nodes in a tree converted by a script of one call
MaxCalls == 2      \* module-function calls one script makes
MaxCallNodes == 2  \* nodes in a tree converted by a script of several calls
MaxFrames == 2     \* frames in the backtrace of an uncaught exception
MaxProps == 2      \* entries in the host's property list
MaxFlag == 5       \* largest magnitude of the integer under a flag node

(***************************************************************************)
(* mpv_format tags as used by the switch in mpv_to_mrb_root.               *)
(***************************************************************************)
MPV_FORMAT_STRING == 1
MPV_FORMAT_FLAG == 3
MPV_FORMAT_INT64 == 4
MPV_FORMAT_DOUBLE == 5
MPV_FORMAT_NODE_ARRAY == 7
MPV_FORMAT_NODE_MAP == 8
\* a tag the switch has no case for (MPV_FORMAT_BYTE_ARRAY)
UnknownFormat == 9

(***************************************************************************)
(* mpv_node trees.  One record shape for every node: format, the scalar    *)
(* payload i (u.flag, u.int64, u.double_), the string payload s            *)
(* (u.string), and for containers u.list->values and u.list->keys.         *)
(***************************************************************************)
Leaf(f, i, s) == [format |-> f, i |-> i, s |-> s, list |-> <<>>, keys |-> <<>>]
AryNode(l) == [format |-> MPV_FORMAT_NODE_ARRAY, i |-> 0, s |-> "",
               list |-> l, keys |-> <<>>]
MapNode(ks, l) == [format |-> MPV_FORMAT_NODE_MAP, i |-> 0, s |-> "",
                   list |-> l, keys |-> ks]

Keys == {"k", "m"}

Leaves ==
    {Leaf(MPV_FORMAT_STRING, 0, "a"),
     Leaf(MPV_FORMAT_FLAG, -1, ""), Leaf(MPV_FORMAT_FLAG, 0, ""),
     Leaf(MPV_FORMAT_INT64, 7, ""),
     Leaf(MPV_FORMAT_DOUBLE, 2, ""),
     Leaf(UnknownFormat, 0, "")}

RECURSIVE NodesOfSize(_), ListsOfSize(_)
\* the trees with exactly n nodes
NodesOfSize(n) ==
    IF n = 1
    THEN Leaves \cup {AryNode(<<>>), MapNode(<<>>, <<>>)}
    ELSE {AryNode(l) : l \in ListsOfSize(n - 1)}
         \cup UNION {{MapNode(ks, l) : ks \in [1..Len(l) -> Keys]}
                     : l \in ListsOfSize(n - 1)}
\* the non-empty child lists with m nodes in total
ListsOfSize(m) ==
    IF m = 0
    THEN {<<>>}
    ELSE UNION {{<<t>> \o l : t \in NodesOfSize(k), l \in ListsOfSize(m - k)}
                : k \in 1..m}

NodeSet == UNION {NodesOfSize(n) : n \in 1..MaxNodes}
SmallNodeSet == UNION {NodesOfSize(n) : n \in 1..MaxCallNodes}
\* a flag node over every integer of the range, alone or as the only
\* element of an array
FlagNodes ==
    LET flags == {Leaf(MPV_FORMAT_FLAG, i, "") : i \in (-MaxFlag)..MaxFlag}
    IN flags \cup {AryNode(<<f>>) : f \in flags}

RECURSIVE NodeCount(_), SumCount(_, _)
NodeCount(node) == 1 + SumCount(node.list, Len(node.list))
SumCount(l, k) == IF k = 0 THEN 0 ELSE NodeCount(l[k]) + SumCount(l, k - 1)

(***************************************************************************)
(* mrb_value.  Immediate values carry their payload in v; a reference      *)
(* carries the heap index of its object.                                   *)
(***************************************************************************)
NoVal == [t |-> "none", v |-> 0]
mrb_nil_value == [t |-> "nil", v |-> 0]
mrb_bool_value(b) == [t |-> "bool", v |-> IF b THEN 1 ELSE 0]
mrb_fixnum_value(i) == [t |-> "fixnum", v |-> i]
mrb_float_value(d) == [t |-> "float", v |-> d]
Ref(id) == [t |-> "ref", v |-> id]

\* heap objects
StrObj(s) == [t |-> "str", s |-> s, items |-> <<>>, keys |-> <<>>]
AryObj == [t |-> "ary", s |-> "", items |-> <<>>, keys |-> <<>>]
HashObj == [t |-> "hash", s |-> "", items |-> <<>>, keys |-> <<>>]
FreeObj == [t |-> "free", s |-> "", items |-> <<>>, keys |-> <<>>]

Range(f) == {f[x] : x \in DOMAIN f}
RefsOf(vals) == {x.v : x \in {y \in Range(vals) : y.t = "ref"}}

\* what the collector marks from a set of roots
RECURSIVE Reach(_, _)
Reach(h, S) ==
    LET N == S \cup UNION {RefsOf(h[id].items) \cup RefsOf(h[id].keys)
                           : id \in S \cap DOMAIN h}
    IN IF N = S THEN S ELSE Reach(h, N)

\* a collection cycle: every object the arena does not reach is freed
Sweep(h, ar) ==
    [id \in DOMAIN h |-> IF id \in Reach(h, Range(ar)) THEN h[id] ELSE FreeObj]


(***************************************************************************)
(* State.                                                                  *)
(***************************************************************************)
VARIABLES
    pc,       \* position of the running load_mruby call
    ctx,      \* struct script_ctx: "none", "live", "freed"
    mrb,      \* mrb_state: "none", "open", "null" (mrb_open failed), "closed"
    bound,    \* the constant "mpctx" holds the ctx pointer
    funcs,    \* module functions registered by define_module
    fp,       \* FILE of the script: "none", "open", "null", "closed"
    r,        \* load_mruby's return value
    exc,      \* mrb->exc
    sink,     \* what MP_ERR has written to ctx->log, in order
    calls,    \* module-function calls made by the script so far
    phase,    \* "script": script code runs; "native": inside a module
              \* function; "returned": the function has returned its value
    fn,       \* the module function being executed
    node,     \* _get_property's local mpv_node
    stack,    \* activation records of mpv_to_mrb_root, innermost last
    ret,      \* value returned by the last finished call
    heap,     \* objects of the interpreter, by index
    arena,    \* GC arena: indices of the temporarily rooted objects
    pl,       \* locals of _property_list
    hist      \* observations kept for the properties stated below

lifeVars == <<pc, ctx, mrb, bound, funcs, fp, r>>
callVars == <<calls, phase, fn, node, stack, ret, pl>>
gcVars == <<heap, arena>>
vars == <<pc, ctx, mrb, bound, funcs, fp, r, exc, sink, calls, phase, fn,
          node, stack, ret, heap, arena, pl, hist>>

NoExc == [set |-> FALSE, desc |-> "", bt |-> <<>>]
NoNode == Leaf(0, 0, "")
NoPl == [props |-> <<>>, i |-> 0, ai |-> 0, obj |-> 0]
NoRel == [kind |-> "none", held |-> 0, released |-> 0, rooted |-> FALSE,
          format |-> 0, saves |-> 0, restores |-> 0, appended |-> 0,
          len |-> 0]

PropNames == {"p", "q"}
LogMessages == {"", "x"}
FaultDescriptions == {"E"}
FrameTexts == {"f", "g"}
\* mpv_get_property's failures: property not found, unsupported format,
\* error accessing the property
HostErrors == {-8, -9, -11}

SeqsUpTo(S, n) == UNION {[1..k -> S] : k \in 0..n}

\* one MP_ERR call: the function that logs, its string and integer
\* arguments, and for a multi-line message its lines
Diag(k, s, a, lines) == [k |-> k, s |-> s, a |-> a, lines |-> lines]
Line(idx, text) == [idx |-> idx, text |-> text]

Init ==
    /\ pc = "entry"
    /\ ctx = "none"
    /\ mrb = "none"
    /\ bound = FALSE
    /\ funcs = {}
    /\ fp = "none"
    /\ r = 0
    /\ exc = NoExc
    /\ sink = <<>>
    /\ calls = 0
    /\ phase = "script"
    /\ fn = "none"
    /\ node = NoNode
    /\ stack = <<>>
    /\ ret = NoVal
    /\ heap = <<>>
    /\ arena = <<>>
    /\ pl = NoPl
    /\ hist = [closes |-> 0, frees |-> 0, nullOps |-> 0, nullFp |-> 0,
               stale |-> FALSE, ran |-> FALSE, hostFails |-> 0,
               convs |-> 0, sinkAtCall |-> 0, name |-> "", err |-> 0,
               rel |-> NoRel, closedAtFree |-> FALSE, sinkAtClose |-> 0,
               entry |-> 0]

(***************************************************************************)
(* get_ctx: the ctx pointer is read back from the constant "mpctx".  The   *)
(* lookup is sound only while the interpreter is open, the constant is set *)
(* and the ctx has not been freed; hist.stale records any other use.       *)
(***************************************************************************)
get_ctx == bound /\ ctx = "live" /\ mrb = "open"
Used(h) == [h EXCEPT !.stale = h.stale \/ ~get_ctx]
\* a module function entered while interpreter or ctx are gone
Entered(h) == [h EXCEPT !.stale = h.stale \/ ctx # "live" \/ mrb # "open"]

(***************************************************************************)
(* load_mruby, step by step.  A call on a null mrb_state or a null FILE    *)
(* is undefined behaviour: the process may die there (pc = "crashed") or   *)
(* the call may come back having done nothing.                             *)
(***************************************************************************)
\* lines 199-209: r = -1, the ctx is allocated and filled in
load_mruby_entry ==
    /\ pc = "entry"
    /\ ctx' = "live"
    /\ r' = -1
    /\ pc' = "open"
    /\ UNCHANGED <<mrb, bound, funcs, fp, exc, sink, callVars, gcVars, hist>>

\* line 211: mrb = ctx->state = mrb_open(), which returns NULL on failure
mrb_open(ok) ==
    /\ pc = "open"
    /\ mrb' = IF ok THEN "open" ELSE "null"
    /\ pc' = "bind"
    /\ UNCHANGED <<ctx, bound, funcs, fp, r, exc, sink, callVars, gcVars, hist>>

\* lines 212-213: mrb_intern_cstr and mrb_vm_const_set, before mrb is tested
load_mruby_bind(crash) ==
    /\ pc = "bind"
    /\ crash => mrb = "null"
    /\ bound' = (mrb = "open")
    /\ hist' = IF mrb = "null" THEN [hist EXCEPT !.nullOps = @ + 1] ELSE hist
    /\ pc' = IF crash THEN "crashed" ELSE "define"
    /\ UNCHANGED <<ctx, mrb, funcs, fp, r, exc, sink, callVars, gcVars>>

\* lines 143-149, called at line 214, before mrb is tested
define_module(crash) ==
    /\ pc = "define"
    /\ crash => mrb = "null"
    /\ funcs' = IF mrb = "open"
                THEN {"log", "property_list", "get_property"} ELSE {}
    /\ hist' = IF mrb = "null" THEN [hist EXCEPT !.nullOps = @ + 1] ELSE hist
    /\ pc' = IF crash THEN "crashed" ELSE "check"
    /\ UNCHANGED <<ctx, mrb, bound, fp, r, exc, sink, callVars, gcVars>>

\* lines 216-217: if (!mrb) goto err_out
load_mruby_check ==
    /\ pc = "check"
    /\ pc' = IF mrb = "null" THEN "err_out" ELSE "load_script"
    /\ UNCHANGED <<ctx, mrb, bound, funcs, fp, r, exc, sink, callVars, gcVars,
                   hist>>

\* lines 182-186: get_ctx, path resolution, fopen (NULL when the file cannot
\* be opened), parser context
load_script_open(ok) ==
    /\ pc = "load_script"
    /\ fp' = IF ok THEN "open" ELSE "null"
    /\ hist' = Used(hist)
    /\ pc' = "exec"
    /\ UNCHANGED <<ctx, mrb, bound, funcs, r, exc, sink, callVars, gcVars>>

\* line 188 with fp = NULL: the parser is handed the missing handle, finds
\* no input and runs nothing
mrb_load_file_null ==
    /\ pc = "exec"
    /\ fp = "null"
    /\ hist' = [hist EXCEPT !.nullFp = @ + 1]
    /\ pc' = "backtrace"
    /\ UNCHANGED <<ctx, mrb, bound, funcs, fp, r, exc, sink, callVars, gcVars>>

\* lines 191-194: mrbc_context_free, fclose(fp) whatever fp is, talloc_free
load_script_close(crash) ==
    /\ pc = "close"
    /\ crash => fp = "null"
    /\ fp' = IF fp = "open" THEN "closed" ELSE fp
    /\ hist' = IF fp = "null" THEN [hist EXCEPT !.nullFp = @ + 1] ELSE hist
    /\ pc' = IF crash THEN "crashed" ELSE "set_r"
    /\ UNCHANGED <<ctx, mrb, bound, funcs, r, exc, sink, callVars, gcVars>>

\* line 221: r = 0, whatever load_script did
load_mruby_set_r ==
    /\ pc = "set_r"
    /\ r' = 0
    /\ pc' = "err_out"
    /\ UNCHANGED <<ctx, mrb, bound, funcs, fp, exc, sink, callVars, gcVars,
                   hist>>

\* err_out without the mrb_close
load_mruby_close_missing ==
    /\ pc = "err_out"
    /\ pc' = "free"
    /\ UNCHANGED <<ctx, mrb, bound, funcs, fp, r, exc, sink, callVars, gcVars,
                   hist>>

\* lines 223-225: if (ctx->state) mrb_close(ctx->state)
load_mruby_close ==
    /\ pc = "err_out"
    /\ IF mrb # "null"
       THEN /\ mrb' = "closed"
            /\ bound' = FALSE
            /\ hist' = [hist EXCEPT !.closes = @ + 1,
                                    !.sinkAtClose = Len(sink),
                                    !.stale = @ \/ ctx # "live"]
            /\ heap' = <<>>
            /\ arena' = <<>>
       ELSE UNCHANGED <<mrb, bound, hist, gcVars>>
    /\ pc' = "free"
    /\ UNCHANGED <<ctx, funcs, fp, r, exc, sink, callVars>>

\* lines 226-227: talloc_free(ctx); return r
load_mruby_free ==
    /\ pc = "free"
    /\ ctx' = "freed"
    /\ hist' = [hist EXCEPT !.frees = @ + 1,
                            !.closedAtFree = (mrb # "open")]
    /\ pc' = "done"
    /\ UNCHANGED <<mrb, bound, funcs, fp, r, exc, sink, callVars, gcVars>>

(***************************************************************************)
(* The interpreter's allocator.  Every new object is pushed on the arena;  *)
(* a collection cycle may run first (gc).                                  *)
(***************************************************************************)
Alloc(h, ar, obj, gc) ==
    LET h1 == IF gc THEN Sweep(h, ar) ELSE h
    IN [heap |-> Append(h1, obj), arena |-> Append(ar, Len(h1) + 1),
        id |-> Len(h1) + 1]

\* the index taken before the container is created instead of after
arena_save_early(ar) == Len(ar) - 1
mrb_gc_arena_save(ar) == Len(ar)
\* the restore that also drops the entry under the saved index
arena_restore_low(ar, ai) == SubSeq(ar, 1, ai - 1)
mrb_gc_arena_restore(ar, ai) == SubSeq(ar, 1, ai)

ary_unshift(h, id, v) == [h EXCEPT ![id].items = <<v>> \o @]
mrb_ary_push(h, id, v) == [h EXCEPT ![id].items = Append(@, v)]

\* hash keys are strings and compare by content: setting a key the hash
\* already holds replaces that entry's value and keeps its key and place
KeyIndex(h, id, k) ==
    {i \in 1..Len(h[id].keys) : h[h[id].keys[i].v].s = h[k.v].s}
mrb_hash_set(h, id, k, v) ==
    IF KeyIndex(h, id, k) = {}
    THEN [h EXCEPT ![id].keys = Append(@, k), ![id].items = Append(@, v)]
    ELSE LET i == CHOOSE j \in KeyIndex(h, id, k) : TRUE
         IN [h EXCEPT ![id].items[i] = v]

(***************************************************************************)
(* print_backtrace, lines 152-178: nothing without a pending exception;    *)
(* otherwise one message holding inspect(exc), the header and one line per *)
(* backtrace entry.                                                        *)
(***************************************************************************)
\* the entries numbered from 1
BacktraceLinesFromOne(e) ==
    <<Line(-1, e.desc), Line(-1, "backtrace:")>>
    \o [i \in 1..Len(e.bt) |-> Line(i, e.bt[i])]

\* lines 162-170
BacktraceLines(e) ==
    <<Line(-1, e.desc), Line(-1, "backtrace:")>>
    \o [i \in 1..Len(e.bt) |-> Line(i - 1, e.bt[i])]

\* line 158: mrb_exc_backtrace hands out the backtrace as an array of
\* strings; they are on the heap before the arena index is saved
BacktraceObjects(h, bt) ==
    <<[AryObj EXCEPT !.items = [i \in 1..Len(bt) |-> Ref(Len(h) + 1 + i)]]>>
    \o [i \in 1..Len(bt) |-> StrObj(bt[i])]

\* lines 158-173: the heap and the arena print_backtrace leaves; the string
\* of mrb_inspect is made after the save and released by the restore
BacktraceGC(h, ar, e) ==
    LET objs == BacktraceObjects(h, e.bt)
        ar1 == ar \o [i \in 1..Len(objs) |-> Len(h) + i]
        ai == mrb_gc_arena_save(ar1)
        a == Alloc(h \o objs, ar1, StrObj(e.desc), FALSE)
    IN [heap |-> a.heap, arena |-> mrb_gc_arena_restore(a.arena, ai)]

\* print_backtrace without its test of mrb->exc
print_backtrace_unguarded ==
    /\ pc = "backtrace"
    /\ sink' = Append(sink, Diag("backtrace", exc.desc, Len(exc.bt),
                                  BacktraceLines(exc)))
    /\ heap' = BacktraceGC(heap, arena, exc).heap
    /\ arena' = BacktraceGC(heap, arena, exc).arena
    /\ hist' = Used(hist)
    /\ pc' = "close"
    /\ UNCHANGED <<ctx, mrb, bound, funcs, fp, r, exc, callVars>>

print_backtrace ==
    /\ pc = "backtrace"
    /\ IF ~exc.set
       THEN UNCHANGED <<sink, hist, gcVars>>
       ELSE /\ sink' = Append(sink, Diag("backtrace", exc.desc, Len(exc.bt),
                                         BacktraceLines(exc)))
            /\ heap' = BacktraceGC(heap, arena, exc).heap
            /\ arena' = BacktraceGC(heap, arena, exc).arena
            /\ hist' = Used(hist)
    /\ pc' = "close"
    /\ UNCHANGED <<ctx, mrb, bound, funcs, fp, r, exc, callVars>>

(***************************************************************************)
(* The script.  mrb_load_file_cxt (line 188) runs it statement by          *)
(* statement: it calls module functions, ends, or raises an exception      *)
(* nothing rescues.                                                        *)
(***************************************************************************)
Scripting == pc = "exec" /\ fp = "open" /\ phase = "script"
CanCall == Scripting /\ calls < MaxCalls

Called(h) == [Entered(h) EXCEPT !.ran = TRUE, !.sinkAtCall = Len(sink),
                                !.convs = 0, !.rel = NoRel,
                                !.name = "", !.err = 0,
                                !.entry = Len(arena)]

script_finish ==
    /\ Scripting
    /\ pc' = "backtrace"
    /\ hist' = [hist EXCEPT !.ran = TRUE]
    /\ UNCHANGED <<ctx, mrb, bound, funcs, fp, r, exc, sink, callVars, gcVars>>

script_raise(desc, bt) ==
    /\ Scripting
    /\ exc' = [set |-> TRUE, desc |-> desc, bt |-> bt]
    /\ pc' = "backtrace"
    /\ hist' = [hist EXCEPT !.ran = TRUE]
    /\ UNCHANGED <<ctx, mrb, bound, funcs, fp, r, sink, callVars, gcVars>>

\* the interpreter takes the returned value, pops the function's arena
\* entries and goes on with the script; what the script does not keep is
\* garbage
vm_resume ==
    /\ pc = "exec"
    /\ phase = "returned"
    /\ phase' = "script"
    /\ fn' = "none"
    /\ ret' = NoVal
    /\ node' = NoNode
    /\ pl' = NoPl
    /\ heap' = <<>>
    /\ arena' = <<>>
    /\ hist' = [hist EXCEPT !.rel = NoRel, !.name = "", !.err = 0, !.convs = 0]
    /\ UNCHANGED <<lifeVars, exc, sink, calls, stack>>

(***************************************************************************)
(* M.log, lines 52-60.                                                     *)
(***************************************************************************)
\* M.log that writes nothing for the empty string
_log_non_empty(string) ==
    /\ CanCall
    /\ calls' = calls + 1
    /\ fn' = "log"
    /\ sink' = IF string = "" THEN sink
               ELSE Append(sink, Diag("log", string, 0, <<>>))
    /\ ret' = mrb_nil_value
    /\ phase' = "returned"
    /\ hist' = [Used(Called(hist)) EXCEPT !.name = string]
    /\ UNCHANGED <<lifeVars, exc, node, stack, pl, gcVars>>

_log(string) ==
    /\ CanCall
    /\ calls' = calls + 1
    /\ fn' = "log"
    /\ sink' = Append(sink, Diag("log", string, 0, <<>>))
    /\ ret' = mrb_nil_value
    /\ phase' = "returned"
    /\ hist' = [Used(Called(hist)) EXCEPT !.name = string]
    /\ UNCHANGED <<lifeVars, exc, node, stack, pl, gcVars>>

(***************************************************************************)
(* M.property_list, lines 62-73.                                           *)
(***************************************************************************)
\* lines 64-66: the array is created, then the arena index is saved
_property_list(props, gc) ==
    /\ CanCall
    /\ calls' = calls + 1
    /\ fn' = "property_list"
    /\ phase' = "native"
    /\ LET a == Alloc(heap, arena, AryObj, gc)
       IN /\ heap' = a.heap
          /\ arena' = a.arena
          /\ pl' = [props |-> props, i |-> 0, obj |-> a.id,
                    ai |-> mrb_gc_arena_save(a.arena)]
    /\ hist' = Called(hist)
    /\ UNCHANGED <<lifeVars, exc, sink, node, stack, ret>>

\* lines 67-70: one name is made a string and pushed
_property_list_push(gc) ==
    /\ pc = "exec" /\ phase = "native" /\ fn = "property_list"
    /\ pl.i < Len(pl.props)
    /\ LET a == Alloc(heap, arena, StrObj(pl.props[pl.i + 1]), gc)
       IN /\ heap' = mrb_ary_push(a.heap, pl.obj, Ref(a.id))
          /\ arena' = a.arena
    /\ pl' = [pl EXCEPT !.i = @ + 1]
    /\ UNCHANGED <<lifeVars, exc, sink, calls, phase, fn, node, stack, ret,
                   hist>>

\* the return without the restore of line 71
_property_list_return_no_restore ==
    /\ pc = "exec" /\ phase = "native" /\ fn = "property_list"
    /\ pl.i = Len(pl.props)
    /\ ret' = Ref(pl.obj)
    /\ phase' = "returned"
    /\ UNCHANGED <<lifeVars, exc, sink, calls, fn, node, stack, pl, heap,
                   arena, hist>>

\* lines 71-72
_property_list_return ==
    /\ pc = "exec" /\ phase = "native" /\ fn = "property_list"
    /\ pl.i = Len(pl.props)
    /\ arena' = mrb_gc_arena_restore(arena, pl.ai)
    /\ ret' = Ref(pl.obj)
    /\ phase' = "returned"
    /\ UNCHANGED <<lifeVars, exc, sink, calls, fn, node, stack, pl, heap, hist>>

(***************************************************************************)
(* M.get_property, lines 133-139, with get_node, lines 75-87.  err is      *)
(* mpv_get_property's status and nd the node it stores on success.         *)
(***************************************************************************)
Frame(nd, root) ==
    [node |-> nd, root |-> root, pc |-> "enter", n |-> 0, ai |-> 0,
     obj |-> 0, key |-> NoVal, saves |-> 0]

\* mpv_error_string
mpv_error_string(err) ==
    CASE err = -8 -> "property not found"
      [] err = -9 -> "unsupported format for accessing property"
      [] err = -11 -> "error accessing property"
      [] OTHER -> "success"

\* lines 82-85: the message of a failed lookup
get_node_silent(name, err) == <<>>
get_node_log(name, err) ==
    IF err < 0
    THEN <<Diag("get_property", name, err, <<Line(-1, mpv_error_string(err))>>)>>
    ELSE <<>>

_get_property(name, err, nd) ==
    /\ CanCall
    /\ (err < 0) <=> (nd = NoNode)
    /\ calls' = calls + 1
    /\ fn' = "get_property"
    /\ IF err < 0
       THEN /\ sink' = sink \o get_node_log(name, err)
            /\ ret' = mrb_nil_value
            /\ phase' = "returned"
            /\ hist' = [Used(Called(hist)) EXCEPT !.hostFails = @ + 1,
                                                  !.name = name, !.err = err]
            /\ UNCHANGED <<node, stack>>
       ELSE /\ node' = nd
            /\ stack' = <<Frame(nd, TRUE)>>
            /\ phase' = "native"
            /\ hist' = [Used(Called(hist)) EXCEPT !.convs = 1, !.name = name]
            /\ UNCHANGED <<sink, ret>>
    /\ UNCHANGED <<lifeVars, exc, pl, gcVars>>

(***************************************************************************)
(* mpv_to_mrb_root, lines 89-129.  The innermost activation record is the  *)
(* one that runs.                                                          *)
(***************************************************************************)
Converting ==
    pc = "exec" /\ phase = "native" /\ fn = "get_property" /\ stack # <<>>
Top == stack[Len(stack)]
IsContainer(nd) == nd.format \in {MPV_FORMAT_NODE_ARRAY, MPV_FORMAT_NODE_MAP}
IsScalar(nd) ==
    nd.format \in {MPV_FORMAT_STRING, MPV_FORMAT_FLAG, MPV_FORMAT_INT64,
                   MPV_FORMAT_DOUBLE}
Popped == SubSeq(stack, 1, Len(stack) - 1)
PhaseAfterReturn == IF Len(stack) = 1 THEN "returned" ELSE "native"

\* the flag taken for true only when it is positive
FlagPositive(flag) == mrb_bool_value(flag > 0)

\* line 95
FlagValue(flag) == mrb_bool_value(flag >= 0)

\* lines 92-99: the scalar cases; only a string is a heap object
mpv_to_mrb_scalar(gc) ==
    /\ Converting
    /\ Top.pc = "enter"
    /\ IsScalar(Top.node)
    /\ gc => Top.node.format = MPV_FORMAT_STRING
    /\ IF Top.node.format = MPV_FORMAT_STRING
       THEN LET a == Alloc(heap, arena, StrObj(Top.node.s), gc)
            IN /\ heap' = a.heap
               /\ arena' = a.arena
               /\ ret' = Ref(a.id)
       ELSE /\ ret' = CASE Top.node.format = MPV_FORMAT_FLAG ->
                             FlagValue(Top.node.i)
                        [] Top.node.format = MPV_FORMAT_INT64 ->
                             mrb_fixnum_value(Top.node.i)
                        [] OTHER -> mrb_float_value(Top.node.i)
            /\ UNCHANGED gcVars
    /\ stack' = Popped
    /\ phase' = PhaseAfterReturn
    /\ UNCHANGED <<lifeVars, exc, sink, calls, fn, node, pl, hist>>

\* the default case without its message
mpv_to_mrb_default_silent ==
    /\ Converting
    /\ Top.pc = "enter"
    /\ ~IsScalar(Top.node) /\ ~IsContainer(Top.node)
    /\ ret' = mrb_nil_value
    /\ stack' = Popped
    /\ phase' = PhaseAfterReturn
    /\ UNCHANGED <<lifeVars, exc, sink, calls, fn, node, pl, gcVars, hist>>

\* lines 123-127: any other format
mpv_to_mrb_default ==
    /\ Converting
    /\ Top.pc = "enter"
    /\ ~IsScalar(Top.node) /\ ~IsContainer(Top.node)
    /\ sink' = Append(sink, Diag("mpv_to_mrb", "", Top.node.format, <<>>))
    /\ hist' = Used(hist)
    /\ ret' = mrb_nil_value
    /\ stack' = Popped
    /\ phase' = PhaseAfterReturn
    /\ UNCHANGED <<lifeVars, exc, calls, fn, node, pl, gcVars>>

\* lines 101-102 and 112-113: the container is created, then the arena
\* index is saved
mpv_to_mrb_new(gc) ==
    /\ Converting
    /\ Top.pc = "enter"
    /\ IsContainer(Top.node)
    /\ LET a == Alloc(heap, arena,
                      IF Top.node.format = MPV_FORMAT_NODE_ARRAY
                      THEN AryObj ELSE HashObj, gc)
       IN /\ heap' = a.heap
          /\ arena' = a.arena
          /\ stack' = [stack EXCEPT ![Len(stack)] =
                         [@ EXCEPT !.pc = "loop", !.obj = a.id,
                                   !.ai = mrb_gc_arena_save(a.arena),
                                   !.saves = @ + 1]]
    /\ UNCHANGED <<lifeVars, exc, sink, calls, phase, fn, node, ret, pl, hist>>

\* lines 103-104 and 114-116: the loop test, for a map the key string, and
\* the nested call on the element
mpv_to_mrb_next(gc) ==
    /\ Converting
    /\ Top.pc = "loop"
    /\ Top.n < Len(Top.node.list)
    /\ gc => Top.node.format = MPV_FORMAT_NODE_MAP
    /\ LET child == Frame(Top.node.list[Top.n + 1], FALSE)
       IN IF Top.node.format = MPV_FORMAT_NODE_MAP
          THEN LET a == Alloc(heap, arena,
                              StrObj(Top.node.keys[Top.n + 1]), gc)
               IN /\ heap' = a.heap
                  /\ arena' = a.arena
                  /\ stack' = Append([stack EXCEPT ![Len(stack)] =
                                        [@ EXCEPT !.pc = "await",
                                                  !.key = Ref(a.id)]], child)
          ELSE /\ stack' = Append([stack EXCEPT ![Len(stack)] =
                                     [@ EXCEPT !.pc = "await"]], child)
               /\ UNCHANGED gcVars
    /\ hist' = [hist EXCEPT !.convs = @ + 1]
    /\ UNCHANGED <<lifeVars, exc, sink, calls, phase, fn, node, ret, pl>>

\* the attach followed by a restore to the call's saved index, inside the
\* loop
mpv_to_mrb_attach_restore ==
    /\ Converting
    /\ Top.pc = "await"
    /\ heap' = IF Top.node.format = MPV_FORMAT_NODE_ARRAY
               THEN mrb_ary_push(heap, Top.obj, ret)
               ELSE mrb_hash_set(heap, Top.obj, Top.key, ret)
    /\ arena' = mrb_gc_arena_restore(arena, Top.ai)
    /\ stack' = [stack EXCEPT ![Len(stack)] =
                   [@ EXCEPT !.pc = "loop", !.n = @ + 1, !.key = NoVal]]
    /\ ret' = NoVal
    /\ UNCHANGED <<lifeVars, exc, sink, calls, phase, fn, node, pl, hist>>

\* lines 105 and 117: the converted element is attached
mpv_to_mrb_attach ==
    /\ Converting
    /\ Top.pc = "await"
    /\ heap' = IF Top.node.format = MPV_FORMAT_NODE_ARRAY
               THEN mrb_ary_push(heap, Top.obj, ret)
               ELSE mrb_hash_set(heap, Top.obj, Top.key, ret)
    /\ stack' = [stack EXCEPT ![Len(stack)] =
                   [@ EXCEPT !.pc = "loop", !.n = @ + 1, !.key = NoVal]]
    /\ ret' = NoVal
    /\ UNCHANGED <<lifeVars, exc, sink, calls, phase, fn, node, pl, arena,
                   hist>>

\* the restore done by the nested calls instead of the root call
ArenaAtReturnNested(ar, f) ==
    IF ~f.root THEN mrb_gc_arena_restore(ar, f.ai) ELSE ar

\* every call restoring, the nested ones too
RestoresAlways(f) == TRUE
\* lines 107 and 119: if (root)
Restores(f) == f.root

\* lines 107-109 and 119-121: only the root call restores the arena
ArenaAtReturn(ar, f) ==
    IF Restores(f) THEN mrb_gc_arena_restore(ar, f.ai) ELSE ar

mpv_to_mrb_return ==
    /\ Converting
    /\ Top.pc = "loop"
    /\ Top.n = Len(Top.node.list)
    /\ arena' = ArenaAtReturn(arena, Top)
    /\ hist' = [hist EXCEPT !.rel =
                  [kind |-> IF Top.root THEN "root" ELSE "nested",
                   held |-> Len(arena) - Top.ai,
                   released |-> Len(arena) - Len(arena'),
                   rooted |-> Top.obj \in Range(arena'),
                   format |-> Top.node.format,
                   saves |-> Top.saves,
                   restores |-> IF Restores(Top) THEN 1 ELSE 0,
                   appended |-> Len(heap[Top.obj].items),
                   len |-> Len(Top.node.list)]]
    /\ ret' = Ref(Top.obj)
    /\ stack' = Popped
    /\ phase' = PhaseAfterReturn
    /\ UNCHANGED <<lifeVars, exc, sink, calls, fn, node, pl, heap>>

(***************************************************************************)
(* Specification.                                                          *)
(***************************************************************************)
\* the steps that take no module-function call
Steps ==
    \/ load_mruby_entry
    \/ \E ok \in BOOLEAN : mrb_open(ok)
    \/ \E crash \in BOOLEAN : load_mruby_bind(crash)
    \/ \E crash \in BOOLEAN : define_module(crash)
    \/ load_mruby_check
    \/ \E ok \in BOOLEAN : load_script_open(ok)
    \/ mrb_load_file_null
    \/ script_finish
    \/ \E desc \in FaultDescriptions, bt \in SeqsUpTo(FrameTexts, MaxFrames) :
          script_raise(desc, bt)
    \/ vm_resume
    \/ \E gc \in BOOLEAN : _property_list_push(gc)
    \/ _property_list_return
    \/ \E gc \in BOOLEAN : mpv_to_mrb_scalar(gc)
    \/ mpv_to_mrb_default
    \/ \E gc \in BOOLEAN : mpv_to_mrb_new(gc)
    \/ \E gc \in BOOLEAN : mpv_to_mrb_next(gc)
    \/ mpv_to_mrb_attach
    \/ mpv_to_mrb_return
    \/ print_backtrace
    \/ \E crash \in BOOLEAN : load_script_close(crash)
    \/ load_mruby_set_r
    \/ load_mruby_close
    \/ load_mruby_free

\* the script calls a module function; the host answers get_property with
\* an error or with a tree out of nodes
Call(nodes) ==
    /\ CanCall
    /\ \/ \E string \in LogMessages : _log(string)
       \/ \E props \in SeqsUpTo(PropNames, MaxProps), gc \in BOOLEAN :
             _property_list(props, gc)
       \/ \E name \in PropNames, err \in HostErrors \cup {0} :
             \E nd \in IF err < 0 THEN {NoNode} ELSE nodes :
                _get_property(name, err, nd)

\* a script of up to MaxCalls calls, on trees of up to MaxCallNodes nodes
Next == Steps \/ Call(SmallNodeSet)
Spec == Init /\ [][Next]_vars

\* a script of at most one call, on trees of up to MaxNodes nodes and on
\* flag nodes
NextOneCall == Steps \/ (calls = 0 /\ Call(NodeSet \cup FlagNodes))
SpecOneCall == Init /\ [][NextOneCall]_vars

(***************************************************************************)
(* Properties.                                                             *)
(***************************************************************************)
Returned == pc = "done"
BacktraceEntries == {i \in 1..Len(sink) : sink[i].k = "backtrace"}

\* C1: a load whose script raised an uncaught exception returns a negative
\* code, and the message with the exception's description and backtrace is
\* in the sink by then.
C1_FaultReturnsNegative ==
    (Returned /\ exc.set) =>
        /\ r < 0
        /\ \E i \in BacktraceEntries : sink[i].lines = BacktraceLines(exc)

C3_FileOpenFailure ==
    (fp = "null" /\ pc \in {"done", "crashed"}) =>
        /\ Returned
        /\ r < 0
        /\ ~hist.ran
        /\ hist.nullFp = 0
        /\ mrb = "closed" /\ ctx = "freed"

\* C4: when mrb_open fails, the load returns a negative code, calls nothing
\* on the missing interpreter, and frees the ctx.
C4_InterpreterOpenFailure ==
    mrb = "null" =>
        /\ hist.nullOps = 0
        /\ pc # "crashed"
        /\ ~bound /\ funcs = {} /\ ~hist.ran
        /\ Returned => (r < 0 /\ ctx = "freed")

\* C5: a script that ran to its end without an uncaught exception makes the
\* load return 0, and print_backtrace has written nothing.
C5_CleanRun ==
    /\ (Returned /\ hist.ran /\ ~exc.set) => r = 0
    /\ ~exc.set => BacktraceEntries = {}

C5_Witness ==
    Returned /\ hist.ran /\ ~exc.set /\ calls > 0 /\ Len(sink) > 0

\* M.get_property has returned the conversion of node
Converted == phase = "returned" /\ fn = "get_property" /\ node # NoNode
\* M.get_property has returned after a failed lookup
LookupFailed == phase = "returned" /\ fn = "get_property" /\ node = NoNode

\* C6 as stated: the root call keeps the temporary roots it registered and
\* a nested call releases its own before it returns.
C6_RootKeepsNestedReleases ==
    /\ hist.rel.kind = "root" => hist.rel.released = 0
    /\ hist.rel.kind = "nested" => hist.rel.released = hist.rel.held

\* C6, amended: a nested call on an Array or Map releases nothing; the root
\* call releases every root registered after its container was created,
\* its own and those the nested calls left, and the container stays rooted.
C6_RootReleasesNestedKeeps ==
    /\ hist.rel.kind = "nested" => hist.rel.released = 0
    /\ hist.rel.kind = "root" =>
          /\ hist.rel.released = hist.rel.held
          /\ hist.rel.rooted
          /\ Converted /\ arena = <<ret.v>>

\* the root call on [[x]] or {k: [x]} with x a string has returned: one of
\* the two roots it released was left by the nested call
C6_Witness ==
    /\ Converted
    /\ hist.rel.kind = "root" /\ hist.rel.released = 2
    /\ Len(node.list) = 1 /\ IsContainer(node.list[1])

\* what the native code holds: the containers under construction, a map
\* key waiting for its value, the value just returned
HeldRefs ==
    {stack[i].obj : i \in {j \in 1..Len(stack) : stack[j].obj > 0}}
    \cup RefsOf([i \in 1..Len(stack) |-> stack[i].key])
    \cup RefsOf(<<ret>>)
    \cup (IF pl.obj > 0 THEN {pl.obj} ELSE {})

\* C7: whatever the native code holds, and whatever is attached to it, is
\* reachable from the arena and has not been freed, at every step of a
\* conversion or of M.property_list and when the call returns.
C7_HeldIsRooted ==
    /\ Reach(heap, HeldRefs) \subseteq Reach(heap, Range(arena))
    /\ \A id \in Reach(heap, HeldRefs) : id \in DOMAIN heap /\ heap[id].t # "free"

\* a root conversion has returned a container that holds a heap object
C7_Witness ==
    /\ Converted
    /\ ret.t = "ref" /\ heap[ret.v].t \in {"ary", "hash"}
    /\ RefsOf(heap[ret.v].items) # {}
    /\ ret.v \in Range(arena)

(***************************************************************************)
(* The shape of a native value, and the shape a tree is to be given.       *)
(***************************************************************************)
Shape(t, v, s, items, keys) ==
    [t |-> t, v |-> v, s |-> s, items |-> items, keys |-> keys]

RECURSIVE ShapeOf(_, _)
ShapeOf(h, x) ==
    IF x.t = "ref"
    THEN Shape(h[x.v].t, 0, h[x.v].s,
               [i \in 1..Len(h[x.v].items) |-> ShapeOf(h, h[x.v].items[i])],
               [i \in 1..Len(h[x.v].keys) |-> h[h[x.v].keys[i].v].s])
    ELSE Shape(x.t, x.v, "", <<>>, <<>>)

RECURSIVE Sorted(_)
Sorted(S) ==
    IF S = {} THEN <<>>
    ELSE LET lo == CHOOSE x \in S : \A y \in S : x <= y
         IN <<lo>> \o Sorted(S \ {lo})

\* the first and the last place of each key of a pair sequence
FirstPlaces(ks) == Sorted({i \in 1..Len(ks) : \A j \in 1..(i - 1) : ks[j] # ks[i]})
LastPlace(ks, k) == CHOOSE i \in 1..Len(ks) :
                       ks[i] = k /\ \A j \in (i + 1)..Len(ks) : ks[j] # k

\* a scalar leaf; a flag is true when its integer is not negative
LeafShape(nd) ==
    CASE nd.format = MPV_FORMAT_STRING -> Shape("str", 0, nd.s, <<>>, <<>>)
      [] nd.format = MPV_FORMAT_FLAG ->
            Shape("bool", IF nd.i < 0 THEN 0 ELSE 1, "", <<>>, <<>>)
      [] nd.format = MPV_FORMAT_INT64 -> Shape("fixnum", nd.i, "", <<>>, <<>>)
      [] nd.format = MPV_FORMAT_DOUBLE -> Shape("float", nd.i, "", <<>>, <<>>)
      [] OTHER -> Shape("nil", 0, "", <<>>, <<>>)

\* every pair of a Map becomes an entry, in sequence
RECURSIVE Mirror(_)
Mirror(nd) ==
    CASE nd.format = MPV_FORMAT_NODE_ARRAY ->
            Shape("ary", 0, "", [i \in 1..Len(nd.list) |-> Mirror(nd.list[i])],
                  <<>>)
      [] nd.format = MPV_FORMAT_NODE_MAP ->
            Shape("hash", 0, "", [i \in 1..Len(nd.list) |-> Mirror(nd.list[i])],
                  nd.keys)
      [] OTHER -> LeafShape(nd)

\* every distinct key of a Map becomes an entry, placed where the key first
\* occurs and holding the value of the last pair with that key
RECURSIVE MirrorByKey(_)
MirrorByKey(nd) ==
    CASE nd.format = MPV_FORMAT_NODE_ARRAY ->
            Shape("ary", 0, "",
                  [i \in 1..Len(nd.list) |-> MirrorByKey(nd.list[i])], <<>>)
      [] nd.format = MPV_FORMAT_NODE_MAP ->
            LET fp1 == FirstPlaces(nd.keys)
            IN Shape("hash", 0, "",
                     [i \in 1..Len(fp1) |->
                        MirrorByKey(nd.list[LastPlace(nd.keys, nd.keys[fp1[i]])])],
                     [i \in 1..Len(fp1) |-> nd.keys[fp1[i]]])
      [] OTHER -> LeafShape(nd)

RECURSIVE Unknowns(_), SumUnknowns(_, _)
\* the nodes of a tree whose format the switch does not know
Unknowns(nd) ==
    (IF ~IsScalar(nd) /\ ~IsContainer(nd) THEN 1 ELSE 0)
    + SumUnknowns(nd.list, Len(nd.list))
SumUnknowns(l, k) ==
    IF k = 0 THEN 0 ELSE Unknowns(l[k]) + SumUnknowns(l, k - 1)

RECURSIVE DupKeys(_)
\* some Map of the tree has two pairs with one key
DupKeys(nd) ==
    \/ nd.format = MPV_FORMAT_NODE_MAP /\ Len(FirstPlaces(nd.keys)) < Len(nd.keys)
    \/ \E i \in 1..Len(nd.list) : DupKeys(nd.list[i])

\* C8 as stated: a tree without unknown formats is converted to a value of
\* the same shape, every pair of a Map being an entry of the hash.
C8_MirrorsEveryPair ==
    (Converted /\ Unknowns(node) = 0) => ShapeOf(heap, ret) = Mirror(node)

\* C8, amended: a tree without unknown formats is converted to a value of
\* the same shape, except that a Map becomes a hash with one entry per
\* distinct key, in the order in which the keys first occur, holding the
\* value of the last pair with that key; a Map whose keys are pairwise
\* distinct is mirrored pair by pair.
C8_MirrorsByKey ==
    (Converted /\ Unknowns(node) = 0) =>
        /\ ShapeOf(heap, ret) = MirrorByKey(node)
        /\ ~DupKeys(node) => ShapeOf(heap, ret) = Mirror(node)

\* a Map of two pairs with one key and different values has been converted
C8_Witness ==
    /\ Converted /\ Unknowns(node) = 0
    /\ node.format = MPV_FORMAT_NODE_MAP /\ Len(node.list) = 2
    /\ node.keys[1] = node.keys[2] /\ node.list[1] # node.list[2]
    /\ Len(heap[ret.v].items) = 1

\* the messages written since the current module-function call began
NewDiags == SubSeq(sink, hist.sinkAtCall + 1, Len(sink))

\* C9: a node of unknown format, at the root or nested, converts to nil in
\* its place, with one message naming the format per such node, without an
\* exception, and the rest of the tree is converted as usual.
C9_UnknownFormat ==
    /\ Converted =>
          /\ ShapeOf(heap, ret) = MirrorByKey(node)
          /\ Len(NewDiags) = Unknowns(node)
          /\ ~exc.set
    /\ (phase = "native" /\ fn = "get_property") =>
          /\ Len(NewDiags) <= Unknowns(node)
          /\ ~exc.set
    /\ fn = "get_property" /\ node # NoNode =>
          \A i \in 1..Len(NewDiags) :
              NewDiags[i] = Diag("mpv_to_mrb", "", UnknownFormat, <<>>)

\* an Array of an unknown node and a string has been converted
C9_Witness ==
    /\ Converted
    /\ node.format = MPV_FORMAT_NODE_ARRAY /\ Len(node.list) = 2
    /\ node.list[1].format = UnknownFormat
    /\ node.list[2].format = MPV_FORMAT_STRING
    /\ heap[ret.v].items[1] = mrb_nil_value
    /\ Len(NewDiags) = 1

\* C10: a failed lookup makes M.get_property return nil after one message
\* with the property's name and the error's description, without a
\* conversion and without an exception, and the load's return value is the
\* one of a load without failed lookups; a successful lookup is converted
\* by a root call.
C10_FailedLookup ==
    /\ LookupFailed =>
          /\ ret = mrb_nil_value
          /\ hist.err \in HostErrors
          /\ NewDiags = <<Diag("get_property", hist.name, hist.err,
                               <<Line(-1, mpv_error_string(hist.err))>>)>>
          /\ mpv_error_string(hist.err) # "success"
          /\ hist.convs = 0 /\ heap = <<>> /\ arena = <<>>
          /\ ~exc.set
    /\ (Returned /\ hist.hostFails > 0) => r = 0
    /\ (fn = "get_property" /\ phase = "native") =>
          /\ stack[1].root /\ stack[1].node = node
          /\ \A i \in 2..Len(stack) : ~stack[i].root

\* the second call of a script is a lookup that failed
C10_Witness ==
    LookupFailed /\ calls = 2 /\ hist.hostFails = 1 /\ hist.name = "q"

\* the native value a flag node was converted to, at the root or as the
\* only element of the root array
FlagResult ==
    IF node.format = MPV_FORMAT_FLAG THEN ret ELSE heap[ret.v].items[1]
FlagInput ==
    IF node.format = MPV_FORMAT_FLAG THEN node.i ELSE node.list[1].i
FlagConverted == Converted /\ node \in FlagNodes

\* C11: a flag node converts to true exactly when its integer is >= 0 and
\* to false exactly when it is negative, for every integer of the range;
\* 0 and 5 give true, -1 gives false.
C11_FlagThreshold ==
    FlagConverted =>
       /\ FlagResult \in {mrb_bool_value(TRUE), mrb_bool_value(FALSE)}
       /\ FlagResult = mrb_bool_value(TRUE) <=> ~(FlagInput < 0)
       /\ FlagResult = mrb_bool_value(FALSE) <=> FlagInput < 0
       /\ FlagInput \in {0, 5} => FlagResult = mrb_bool_value(TRUE)
       /\ FlagInput = -1 => FlagResult = mrb_bool_value(FALSE)

\* the flag 0, nested in an array, has come out true
C11_Witness ==
    /\ FlagConverted
    /\ node.format = MPV_FORMAT_NODE_ARRAY
    /\ FlagInput = 0
    /\ FlagResult = mrb_bool_value(TRUE)

\* the uncaught exception has been reported
Reported == exc.set /\ pc \notin {"exec", "backtrace"}

\* C12: an uncaught exception makes the load write exactly one backtrace
\* message, before mrb_close, holding the exception's description, the
\* header "backtrace:" and one line "[i] => frame" per backtrace entry, in
\* order, i counting from 0; with no entry it holds the description and the
\* header only.
C12_FaultDiagnostic ==
    /\ (exc.set /\ ~Reported) => BacktraceEntries = {}
    /\ Reported =>
          /\ Cardinality(BacktraceEntries) = 1
          /\ \A i \in BacktraceEntries :
                /\ sink[i].s = exc.desc
                /\ Len(sink[i].lines) = 2 + Len(exc.bt)
                /\ sink[i].lines[1] = Line(-1, exc.desc)
                /\ sink[i].lines[2] = Line(-1, "backtrace:")
                /\ \A k \in 1..Len(exc.bt) :
                      sink[i].lines[2 + k] = Line(k - 1, exc.bt[k])
                /\ hist.closes > 0 => i <= hist.sinkAtClose
          /\ hist.closes = 0 => mrb = "open"

\* a load has returned after an exception with two different frames
C12_Witness ==
    /\ Returned /\ exc.set
    /\ exc.bt = <<"f", "g">>
    /\ hist.closes = 1
    /\ BacktraceEntries # {}

\* M.property_list has returned
PropertyListed == phase = "returned" /\ fn = "property_list"

\* C13: M.property_list returns an array holding every name of the host's
\* property list, in the list's order, of the list's length, duplicates
\* included, and leaves the arena at the height it had right after the
\* array was created.
C13_PropertyList ==
    PropertyListed =>
       /\ ret.t = "ref"
       /\ heap[ret.v].t = "ary"
       /\ Len(heap[ret.v].items) = Len(pl.props)
       /\ \A i \in 1..Len(pl.props) :
             /\ heap[ret.v].items[i].t = "ref"
             /\ heap[heap[ret.v].items[i].v] = StrObj(pl.props[i])
       /\ Len(arena) = pl.ai
       /\ arena = <<ret.v>>

\* the host's list holds the same name twice
C13_Witness ==
    /\ PropertyListed
    /\ pl.props = <<"p", "p">>
    /\ Len(heap[ret.v].items) = 2
    /\ heap[ret.v].items[1] # heap[ret.v].items[2]

\* C14: every call of M.log, with the empty string too, adds exactly one
\* message to the log, at error level, whose text is the argument as it
\* is, returns nil, and changes nothing else: not the load's state, the
\* pending exception, the heap, the arena or what was logged before.
C14_LogFrame ==
    [][(phase = "script" /\ fn' = "log") =>
          /\ sink' = Append(sink, Diag("log", hist'.name, 0, <<>>))
          /\ ret' = mrb_nil_value
          /\ hist'.name \in LogMessages
          /\ hist'.stale = hist.stale
          /\ UNCHANGED <<lifeVars, exc, node, stack, pl, heap, arena>>]_vars

\* the second call of a script has logged the empty string
C14_Witness ==
    /\ phase = "returned" /\ fn = "log" /\ calls = 2
    /\ hist.name = ""
    /\ Len(sink) = 2
    /\ sink[2] = Diag("log", "", 0, <<>>)

\* the lifecycle state of the load, read off the place load_mruby is at
LifecycleState ==
    CASE pc \in {"entry", "open"} -> "NONE"
      [] pc = "bind" -> "CREATED"
      [] pc = "define" -> "CONTEXT_BOUND"
      [] pc \in {"check", "load_script"} -> "CAPABILITIES_REGISTERED"
      [] pc = "exec" -> "RUNNING"
      [] pc \in {"backtrace", "close", "set_r", "err_out", "free"} ->
            IF exc.set \/ r < 0 THEN "FAILED" ELSE "COMPLETED"
      [] pc = "done" -> "TORN_DOWN"
      [] OTHER -> "CRASHED"

AllFuncs == {"log", "property_list", "get_property"}

\* C15: a load goes through CREATED, CONTEXT_BOUND, CAPABILITIES_REGISTERED,
\* RUNNING, COMPLETED or FAILED, TORN_DOWN in this order: the states up to
\* RUNNING have an interpreter, the constant is set from CONTEXT_BOUND on,
\* the three functions are defined from CAPABILITIES_REGISTERED on, no
\* script code runs before that, and a load that has ended has closed the
\* interpreter and freed the ctx.
C15_Lifecycle ==
    /\ LifecycleState \in {"CONTEXT_BOUND", "CAPABILITIES_REGISTERED",
                           "RUNNING"} =>
          (mrb = "open" /\ ctx = "live" /\ bound)
    /\ LifecycleState \in {"CAPABILITIES_REGISTERED", "RUNNING"} =>
          funcs = AllFuncs
    /\ LifecycleState \in {"NONE", "CREATED", "CONTEXT_BOUND",
                           "CAPABILITIES_REGISTERED"} =>
          (~hist.ran /\ calls = 0 /\ sink = <<>>)
    /\ hist.ran => funcs = AllFuncs
    /\ LifecycleState # "CRASHED"
    /\ LifecycleState = "TORN_DOWN" =>
          (ctx = "freed" /\ mrb # "open" /\ hist.closedAtFree)

\* the calls on an Array that have saved their arena index and not returned
OpenArrays ==
    {i \in 1..Len(stack) :
        /\ stack[i].node.format = MPV_FORMAT_NODE_ARRAY
        /\ stack[i].pc # "enter"}

\* C16 as stated: every call on an Array, root or nested, saves the arena
\* index once and restores it once, after all the elements were pushed.
C16_EveryArrayReleasesOnce ==
    hist.rel.format = MPV_FORMAT_NODE_ARRAY =>
       /\ hist.rel.saves = 1
       /\ hist.rel.restores = 1
       /\ hist.rel.appended = hist.rel.len

\* C16, amended: every call on an Array saves the arena index once, right
\* after it created the array, and nothing is restored below that index
\* while the call is active; the root call restores once, after all the
\* elements were pushed; a nested call returns after all its elements were
\* pushed without restoring, and releases nothing.
C16_RootArrayReleasesOnce ==
    /\ hist.rel.format = MPV_FORMAT_NODE_ARRAY =>
          /\ hist.rel.saves = 1
          /\ hist.rel.appended = hist.rel.len
          /\ hist.rel.kind = "root" => hist.rel.restores = 1
          /\ hist.rel.kind = "nested" =>
                (hist.rel.restores = 0 /\ hist.rel.released = 0)
    /\ \A i \in OpenArrays :
          /\ stack[i].saves = 1
          /\ stack[i].ai <= Len(arena)
          /\ arena[stack[i].ai] = stack[i].obj
          /\ Len(heap[stack[i].obj].items) = stack[i].n

\* a nested call on an Array of one element has returned to the root call
C16_Witness ==
    /\ Converting
    /\ hist.rel.kind = "nested"
    /\ hist.rel.format = MPV_FORMAT_NODE_ARRAY
    /\ hist.rel.len = 1 /\ hist.rel.appended = 1
    /\ OpenArrays = {1}

\* the calls on an Array or Map that have saved their arena index and not
\* returned
OpenScopes == {i \in 1..Len(stack) : stack[i].pc # "enter"}

\* C17: arena indexes are used as a stack.  Every active call's saved index
\* is the height right after its own container, above the index of every
\* enclosing call and never above the arena's height, so no restore has gone
\* below it; the restore at a return goes to the returning call's own index;
\* after the root conversion of an Array or Map, as after M.property_list,
\* the arena is one entry higher than at entry, the result, whatever the
\* tree's size and depth; print_backtrace leaves the arena as it was at its
\* save.
C17_LifoMarks ==
    /\ \A i \in OpenScopes :
          /\ stack[i].ai <= Len(arena)
          /\ arena[stack[i].ai] = stack[i].obj
          /\ \A j \in OpenScopes : j < i => stack[j].ai < stack[i].ai
    /\ (phase = "native" /\ fn = "property_list") =>
          (pl.ai <= Len(arena) /\ arena[pl.ai] = pl.obj)
    /\ hist.rel.restores = 1 => hist.rel.released = hist.rel.held
    /\ (Converted /\ IsContainer(node)) =>
          (Len(arena) = hist.entry + 1 /\ arena[Len(arena)] = ret.v)
    /\ PropertyListed =>
          (Len(arena) = hist.entry + 1 /\ arena[Len(arena)] = ret.v)
    /\ (Reported /\ hist.closes = 0) =>
          (Len(arena) = 1 + Len(exc.bt) /\ Len(heap) = Len(arena) + 1)

\* the root conversion of [{k: "a"}] has returned: four objects were
\* made, one is left on the arena
C17_Witness ==
    /\ Converted
    /\ node = AryNode(<<MapNode(<<"k">>, <<Leaf(MPV_FORMAT_STRING, 0, "a")>>)>>)
    /\ Len(heap) = 4
    /\ Len(arena) = 1

\* the heap objects the conversion of nd creates: one per string, per
\* container and per map key
RECURSIVE HeapObjects(_), ObjectsOfFirst(_, _)
HeapObjects(nd) ==
    CASE nd.format = MPV_FORMAT_STRING -> 1
      [] IsContainer(nd) -> 1 + ObjectsOfFirst(nd, Len(nd.list))
      [] OTHER -> 0
\* those created for the first k elements of a container
ObjectsOfFirst(nd, k) ==
    IF k = 0 THEN 0
    ELSE HeapObjects(nd.list[k]) + ObjectsOfFirst(nd, k - 1)
         + (IF nd.format = MPV_FORMAT_NODE_MAP THEN 1 ELSE 0)

\* C18 as stated: the roots registered while one element of a collection
\* is converted are released before the next element is converted, so that
\* the number held does not grow with the tree.
C18_SiblingRootsReleased ==
    (Converting /\ Top.pc = "loop") => Len(arena) = Top.ai

\* C18, amended: during a root conversion nothing is released before the
\* root call returns.  Every object created so far is on the arena; when a
\* call is between two elements, the arena holds above its saved index
\* every object created for the elements converted so far; the number held
\* is at most the number of strings, containers and map keys of the tree;
\* the root call's return leaves the result alone.
C18_RootsAccumulate ==
    /\ Converting =>
          /\ arena = [i \in 1..Len(heap) |-> i]
          /\ Len(arena) <= hist.entry + HeapObjects(node)
          /\ Top.pc = "loop" =>
                Len(arena) - Top.ai = ObjectsOfFirst(Top.node, Top.n)
    /\ (Converted /\ IsContainer(node)) =>
          /\ Len(heap) = HeapObjects(node)
          /\ hist.rel.released = HeapObjects(node) - 1
          /\ Len(arena) = hist.entry + 1

\* the root call on an array of two strings has converted both: both are
\* still on the arena
C18_Witness ==
    /\ Converting
    /\ Top.root /\ Top.pc = "loop" /\ Top.n = 2
    /\ Top.node.format = MPV_FORMAT_NODE_ARRAY
    /\ Top.node.list[1].format = MPV_FORMAT_STRING
    /\ Top.node.list[2].format = MPV_FORMAT_STRING
    /\ Len(arena) = Top.ai + 2

=============================================================================
